---- MODULE Spec2Model ----
(***************************************************************************)
(* The retrieval notebook of parallel-IR as a state machine.               *)
(*                                                                         *)
(* The kernel namespace (docs, doc_ids, tfidf_vectorizer, tfidf_matrix,    *)
(* query_cache, retrieve_with_cache, indexref, index), the joblib files    *)
(* under cache/ and the Terrier index directory are the state.  Every code *)
(* cell is an action; retrieve_with_cache is an action of its own.         *)
(*                                                                         *)
(* Texts are sequences of raw words.  Cosine scores are fixed-point        *)
(* numbers with three decimals (1000 stands for 1.0).  Document ids are    *)
(* numbers, compared as the ids are compared.                              *)
(***************************************************************************)
EXTENDS Integers, Sequences, FiniteSets, TLC

VARIABLES
    names,              \* the names bound in the kernel namespace
    docs,               \* list of document texts
    doc_ids,            \* list of document ids, parallel to docs
    tfidf_vectorizer,   \* [fitted, vocabulary, idf]
    tfidf_matrix,       \* one L2-normalised row per document
    query_cache,        \* the dictionary query_text -> results
    disk,               \* the joblib files under cache/
    indexFiles,         \* the Terrier directory ../indexes/antique-index
    index,              \* the Terrier index object the retrievers read
    ret,                \* outcome of the last cell or call
    snap,               \* probe: build number of the live tfidf_matrix
    builds,             \* probe: number of completed matrix builds
    cacheMeta,          \* probe: per cache entry, the k and build it was computed with
    pending,            \* probe: keys cached when the last rebuild ran, not requested since
    scorerCalls,        \* probe: scorer invocations per (query_text, k) since the last rebuild
    first,              \* probe: first result per (query_text, k) since the last rebuild
    calls,              \* probe: number of retrieve_with_cache calls so far
    pc,                 \* concurrent callers: position inside retrieve_with_cache
    req,                \* concurrent callers: the arguments of the call
    local,              \* concurrent callers: the results computed, not yet stored
    got,                \* concurrent callers: what the call returned
    started             \* probe: scorer computations started per query_text

vars == <<names, docs, doc_ids, tfidf_vectorizer, tfidf_matrix,
          query_cache, disk, indexFiles, index, ret, snap, builds, cacheMeta,
          pending, scorerCalls, first, calls, pc, req, local, got, started>>

----------------------------------------------------------------------------
(* Bounds of the model.                                                    *)

MaxK == 2
MaxCalls == 2
MaxBuilds == 2
NCallers == 2

Scale == 10 * 10 * 10

----------------------------------------------------------------------------
(* Small arithmetic.                                                       *)

Min(a, b) == IF a <= b THEN a ELSE b
Max(a, b) == IF a >= b THEN a ELSE b

RECURSIVE SumOver(_, _)
SumOver(S, f) ==
    IF S = {} THEN 0
    ELSE LET x == CHOOSE y \in S : TRUE IN f[x] + SumOver(S \ {x}, f)

RECURSIVE SqrtBetween(_, _, _)
SqrtBetween(lo, hi, x) ==
    IF lo >= hi THEN lo
    ELSE LET mid == (lo + hi + 1) \div 2
         IN IF mid * mid <= x THEN SqrtBetween(mid, hi, x)
                              ELSE SqrtBetween(lo, mid - 1, x)

ISqrt(x) == SqrtBetween(0, Min(x, 46340), x)

\* natural logarithm, three decimals
Ln(n) ==
    CASE n = 1 -> 0
      [] n = 2 -> 693
      [] n = 3 -> 1099
      [] n = 4 -> 1386
      [] n = 5 -> 1609
      [] n = 6 -> 1792

Reverse(s) == [i \in 1..Len(s) |-> s[Len(s) + 1 - i]]

Range(s) == {s[i] : i \in DOMAIN s}

Count(s, t) == Cardinality({i \in DOMAIN s : s[i] = t})

----------------------------------------------------------------------------
(* The corpora ir_datasets can hand out, and the queries callers send.     *)

Doc(id, text) == [doc_id |-> id, text |-> text]

\* the text of a document whose payload is not text (None, a number)
NonText == <<"<non-text>">>

Corpora ==
    <<  << Doc(1, <<"the", "cat">>), Doc(2, <<"cat", "dog">>), Doc(3, <<"dog">>) >>,
        << Doc(2, <<"Cat", "x", "bird">>), Doc(1, <<"dog", "cat">>) >>,
        << Doc(3, <<"dog">>), Doc(2, <<"cat", "dog">>), Doc(1, <<"the", "cat">>) >>,
        << Doc(1, <<"the", "cat">>), Doc(2, NonText), Doc(3, <<"dog">>) >>  >>

\* the corpora the sessions below load
SessionCorpora == {1, 2}

\* the same documents, yielded by docs_iter() in two orders
Orderings == {1, 3}

\* a corpus of text documents, and one that holds a document without text
WithMalformed == {1, 4}

WellFormed(c) == \A i \in DOMAIN Corpora[c] : Corpora[c][i].text # NonText

Queries == { <<"Cat">>, <<"zebra">> }

TopKs == (0 - 1)..MaxK

PositiveKs == 1..MaxK

----------------------------------------------------------------------------
(* TfidfVectorizer(stop_words='english'): the analyzer, fit and transform. *)

StopWords == {"the"}

OneCharTokens == {"x"}

Lower(w) == IF w = "Cat" THEN "cat" ELSE w

\* lowercase, keep tokens of two or more word characters, drop stop words
Analyze(text) ==
    LET low == [i \in DOMAIN text |-> Lower(text[i])]
        keep(t) == t \notin OneCharTokens /\ t \notin StopWords
    IN SelectSeq(low, keep)

Unfitted == [fitted |-> FALSE, vocabulary |-> {}, idf |-> <<>>]

\* fit: the vocabulary of the corpus and the smoothed idf of every term
Fit(texts) ==
    LET toks == [i \in DOMAIN texts |-> Analyze(texts[i])]
        vocab == UNION {Range(toks[i]) : i \in DOMAIN toks}
        n == Len(texts)
        df(t) == Cardinality({i \in DOMAIN toks : t \in Range(toks[i])})
    IN [fitted |-> TRUE,
        vocabulary |-> vocab,
        idf |-> [t \in vocab |-> Scale + Ln(1 + n) - Ln(1 + df(t))]]

\* transform of one text: tf * idf over the fitted vocabulary, L2-normalised;
\* a term outside the vocabulary has no column
Transform(vec, text) ==
    LET toks == Analyze(text)
        raw == [t \in vec.vocabulary |-> Count(toks, t) * vec.idf[t]]
        norm == ISqrt(SumOver(vec.vocabulary, [t \in vec.vocabulary |-> raw[t] * raw[t]]))
    IN [t \in vec.vocabulary |-> IF norm = 0 THEN 0 ELSE (raw[t] * Scale) \div norm]

FitTransform(texts) ==
    LET vec == Fit(texts) IN [i \in DOMAIN texts |-> Transform(vec, texts[i])]

\* cosine_similarity(query_vec, tfidf_matrix).flatten()
CosineSimilarity(qv, matrix) ==
    [i \in DOMAIN matrix |->
        SumOver(DOMAIN qv, [t \in DOMAIN qv |-> qv[t] * matrix[i][t]]) \div Scale]

\* the orders np.argsort may return: ascending by value, equal values in any order
RECURSIVE Perms(_)
Perms(S) ==
    IF S = {} THEN {<<>>}
    ELSE UNION {{<<x>> \o p : p \in Perms(S \ {x})} : x \in S}

ArgSorts(a) ==
    {p \in Perms(DOMAIN a) : \A i \in 1..(Len(p) - 1) : a[p[i]] <= a[p[i + 1]]}

\* s[:k] of Python
SliceTo(s, k) ==
    LET n == Len(s)
        stop == IF k >= 0 THEN Min(k, n) ELSE Max(n + k, 0)
    IN SubSeq(s, 1, stop)

----------------------------------------------------------------------------
(* The kernel namespace and the files.                                     *)

EmptyDict == [x \in {} |-> 0]

DictPut(d, key, v) == [x \in DOMAIN d \cup {key} |-> IF x = key THEN v ELSE d[x]]

Bound(n) == n \in names

NoRet == [op |-> "none", outcome |-> "none", q |-> <<>>, k |-> 0, results |-> <<>>,
          hit |-> FALSE, repeat |-> FALSE, entryK |-> 0, entrySnap |-> 0,
          liveSnap |-> 0, wasPending |-> FALSE, dataset |-> 0]

\* how a code cell ended
CellRet(op, outcome, dataset) ==
    [NoRet EXCEPT !.op = op, !.outcome = outcome, !.dataset = dataset]

NoDisk == [files |-> {}, docs |-> <<>>, doc_ids |-> <<>>, tfidf_matrix |-> <<>>,
           tfidf_vectorizer |-> Unfitted, query_cache |-> EmptyDict,
           snap |-> 0, cacheMeta |-> EmptyDict]

Texts(c) == [i \in DOMAIN Corpora[c] |-> Corpora[c][i].text]
Ids(c) == [i \in DOMAIN Corpora[c] |-> Corpora[c][i].doc_id]

ProbesReset ==
    /\ scorerCalls' = EmptyDict
    /\ first' = EmptyDict

ConcUnchanged == UNCHANGED <<pc, req, local, got, started>>

----------------------------------------------------------------------------
(* retrieve_with_cache(query_text, top_k)                                  *)

\* the (doc_id, score) pairs of the first top_k positions of a reversed argsort
Results(order, cos_sim, ids, top_k) ==
    LET top_doc_indices == SliceTo(Reverse(order), top_k)
    IN [j \in DOMAIN top_doc_indices |->
           [doc_id |-> ids[top_doc_indices[j]], score |-> cos_sim[top_doc_indices[j]]]]

\* the indices line 669 reads doc_ids at
TopIndices(order, top_k) == Range(SliceTo(Reverse(order), top_k))

CacheLookup(cache, query_text) == query_text \in DOMAIN cache

\* a retrieve_with_cache that forgets line 670
CacheStoreSkipped(cache, query_text, results) == cache

\* a retrieve_with_cache whose cache keeps the latest entry only
CacheStoreClearing(cache, query_text, results) == DictPut(EmptyDict, query_text, results)

CacheStore(cache, query_text, results) == DictPut(cache, query_text, results)

Answer(q, k, outcome, results, hit) ==
    [op |-> "retrieve", outcome |-> outcome, q |-> q, k |-> k, results |-> results,
     hit |-> hit, repeat |-> <<q, k>> \in DOMAIN first,
     entryK |-> IF q \in DOMAIN cacheMeta THEN cacheMeta[q].k ELSE 0,
     entrySnap |-> IF q \in DOMAIN cacheMeta THEN cacheMeta[q].snap ELSE 0,
     liveSnap |-> snap, wasPending |-> q \in pending, dataset |-> 0]

\* a retrieve_with_cache that catches the exception and returns an empty list
RaiseSwallowed(q, k, err) ==
    /\ ret' = Answer(q, k, "ok", <<>>, FALSE)
    /\ UNCHANGED <<query_cache, cacheMeta, scorerCalls, first>>

\* a retrieve_with_cache that stores an empty list for the key before it raises
RaiseStoring(q, k, err) ==
    /\ ret' = Answer(q, k, err, <<>>, FALSE)
    /\ query_cache' = DictPut(query_cache, q, <<>>)
    /\ cacheMeta' = DictPut(cacheMeta, q, [k |-> k, snap |-> snap])
    /\ UNCHANGED <<scorerCalls, first>>

Raise(q, k, err) ==
    /\ ret' = Answer(q, k, err, <<>>, FALSE)
    /\ UNCHANGED <<query_cache, cacheMeta, scorerCalls, first>>

RetrieveWithCache(query_text, top_k) ==
    /\ Bound("retrieve_with_cache")
    /\ calls < MaxCalls
    /\ calls' = calls + 1
    /\ pending' = pending \ {query_text}
    /\ IF CacheLookup(query_cache, query_text)
       THEN /\ ret' = Answer(query_text, top_k, "ok", query_cache[query_text], TRUE)
            /\ first' = IF <<query_text, top_k>> \in DOMAIN first THEN first
                        ELSE DictPut(first, <<query_text, top_k>>, query_cache[query_text])
            /\ UNCHANGED <<query_cache, cacheMeta, scorerCalls>>
       ELSE IF ~Bound("tfidf_vectorizer") THEN Raise(query_text, top_k, "NameError")
       ELSE IF ~tfidf_vectorizer.fitted THEN Raise(query_text, top_k, "NotFittedError")
       ELSE IF ~Bound("tfidf_matrix") THEN Raise(query_text, top_k, "NameError")
       ELSE LET query_vec == Transform(tfidf_vectorizer, query_text)
                cos_sim == CosineSimilarity(query_vec, tfidf_matrix)
                key == <<query_text, top_k>>
                n == IF key \in DOMAIN scorerCalls THEN scorerCalls[key] ELSE 0
            IN \E order \in ArgSorts(cos_sim) :
                 IF \E i \in TopIndices(order, top_k) : i > Len(doc_ids)
                 THEN /\ ret' = Answer(query_text, top_k, "IndexError", <<>>, FALSE)
                      /\ scorerCalls' = DictPut(scorerCalls, key, n + 1)
                      /\ UNCHANGED <<query_cache, cacheMeta, first>>
                 ELSE LET results == Results(order, cos_sim, doc_ids, top_k)
                      IN /\ query_cache' = CacheStore(query_cache, query_text, results)
                         /\ cacheMeta' = DictPut(cacheMeta, query_text,
                                                 [k |-> top_k, snap |-> snap])
                         /\ scorerCalls' = DictPut(scorerCalls, key, n + 1)
                         /\ first' = IF key \in DOMAIN first THEN first
                                     ELSE DictPut(first, key, results)
                         /\ ret' = Answer(query_text, top_k, "ok", results, FALSE)
    /\ UNCHANGED <<names, docs, doc_ids, tfidf_vectorizer, tfidf_matrix,
                   disk, indexFiles, index, snap, builds>>
    /\ ConcUnchanged

----------------------------------------------------------------------------
(* The code cells.                                                         *)

NoIndexFiles == [written |-> {}, properties |-> FALSE]

\* what the indexer has written when it stops after n documents
Written(c, n) == {Corpora[c][i].doc_id : i \in 1..n}

\* the Terrier index cell over the documents dataset.docs_iter() yields:
\* build when data.properties is missing, else open what is there
IndexCell(dataset) ==
    /\ IF ~indexFiles.properties
       THEN \/ /\ indexFiles' = [written |-> Written(dataset, Len(Corpora[dataset])),
                                 properties |-> TRUE]
               /\ index' = Written(dataset, Len(Corpora[dataset]))
               /\ names' = names \cup {"index"}
               /\ ret' = CellRet("index", "built", dataset)
            \/ \E n \in 0..(Len(Corpora[dataset]) - 1) :
                 /\ indexFiles' = [written |-> Written(dataset, n), properties |-> FALSE]
                 /\ ret' = CellRet("index", "error", dataset)
                 /\ UNCHANGED <<index, names>>
       ELSE /\ index' = indexFiles.written
            /\ names' = names \cup {"index"}
            /\ ret' = CellRet("index", "opened", dataset)
            /\ UNCHANGED indexFiles
    /\ UNCHANGED <<docs, doc_ids, tfidf_vectorizer, tfidf_matrix, query_cache,
                   disk, snap, builds, cacheMeta, pending, scorerCalls, first, calls>>
    /\ ConcUnchanged

\* where the TF-IDF cell can stop: the analyzer of fit_transform raises on a
\* document that is not text, so the cell cannot complete on such a corpus
Stops(dataset) == IF WellFormed(dataset) THEN {"575", "end"} ELSE {"575"}

\* the statements of the TF-IDF cell that have run when it stops at `stop`
\* ("575": fit_transform raised, "end": the cell completed)
Assigned(stop) ==
    IF stop = "575" THEN {"docs", "doc_ids", "tfidf_vectorizer"}
    ELSE {"docs", "doc_ids", "tfidf_vectorizer", "tfidf_matrix"}

\* the TF-IDF cell over the documents dataset.docs_iter() yields: docs, doc_ids,
\* tfidf_vectorizer and tfidf_matrix are assigned one after another
TfidfCell(dataset) ==
    /\ builds < MaxBuilds
    /\ \E stop \in Stops(dataset) :
         /\ names' = names \cup Assigned(stop)
         /\ docs' = Texts(dataset)
         /\ doc_ids' = Ids(dataset)
         /\ IF stop = "end"
            THEN /\ tfidf_vectorizer' = Fit(Texts(dataset))
                 /\ tfidf_matrix' = FitTransform(Texts(dataset))
                 /\ builds' = builds + 1
                 /\ snap' = builds + 1
                 /\ pending' = DOMAIN query_cache
                 /\ ProbesReset
            ELSE /\ tfidf_vectorizer' = Unfitted
                 /\ UNCHANGED <<tfidf_matrix, builds, snap, pending, scorerCalls, first>>
    /\ ret' = NoRet
    /\ UNCHANGED <<query_cache, disk, indexFiles, index, cacheMeta, calls>>
    /\ ConcUnchanged

\* the cache cell: query_cache = {} and def retrieve_with_cache
CacheCell ==
    /\ query_cache' = EmptyDict
    /\ names' = names \cup {"query_cache", "retrieve_with_cache"}
    /\ cacheMeta' = EmptyDict
    /\ pending' = {}
    /\ ProbesReset
    /\ ret' = NoRet
    /\ UNCHANGED <<docs, doc_ids, tfidf_vectorizer, tfidf_matrix, disk,
                   indexFiles, index, snap, builds, calls>>
    /\ ConcUnchanged

FileOrder == <<"docs", "doc_ids", "tfidf_matrix", "tfidf_vectorizer", "query_cache">>

\* the names of the longest prefix of `order` that lies in `have`
RECURSIVE Prefix(_, _)
Prefix(order, have) ==
    IF order = <<>> \/ Head(order) \notin have THEN {}
    ELSE {Head(order)} \cup Prefix(Tail(order), have)

\* the save cell: joblib.dump of each object in turn; an unbound name stops it
SaveCell ==
    LET saved == Prefix(FileOrder, names)
    IN /\ saved # {}
       /\ disk' = [files |-> disk.files \cup saved,
                   docs |-> IF "docs" \in saved THEN docs ELSE disk.docs,
                   doc_ids |-> IF "doc_ids" \in saved THEN doc_ids ELSE disk.doc_ids,
                   tfidf_matrix |-> IF "tfidf_matrix" \in saved THEN tfidf_matrix
                                    ELSE disk.tfidf_matrix,
                   tfidf_vectorizer |-> IF "tfidf_vectorizer" \in saved THEN tfidf_vectorizer
                                        ELSE disk.tfidf_vectorizer,
                   query_cache |-> IF "query_cache" \in saved THEN query_cache
                                   ELSE disk.query_cache,
                   snap |-> IF "tfidf_matrix" \in saved THEN snap ELSE disk.snap,
                   cacheMeta |-> IF "query_cache" \in saved THEN cacheMeta
                                 ELSE disk.cacheMeta]
       /\ ret' = NoRet
       /\ UNCHANGED <<names, docs, doc_ids, tfidf_vectorizer, tfidf_matrix,
                      query_cache, indexFiles, index, snap, builds, cacheMeta, pending,
                      scorerCalls, first, calls>>
       /\ ConcUnchanged

\* the load cell: joblib.load of each object in turn; a missing file stops it,
\* except the query cache file, whose absence gives an empty cache
LoadCell ==
    LET loaded == Prefix(SubSeq(FileOrder, 1, 4), disk.files)
        all == Cardinality(loaded) = 4
    IN /\ loaded # {}
       /\ names' = names \cup loaded \cup (IF all THEN {"query_cache"} ELSE {})
       /\ docs' = disk.docs
       /\ doc_ids' = IF "doc_ids" \in loaded THEN disk.doc_ids ELSE doc_ids
       /\ tfidf_matrix' = IF "tfidf_matrix" \in loaded THEN disk.tfidf_matrix
                          ELSE tfidf_matrix
       /\ snap' = IF "tfidf_matrix" \in loaded THEN disk.snap ELSE snap
       /\ tfidf_vectorizer' = IF all THEN disk.tfidf_vectorizer ELSE tfidf_vectorizer
       /\ IF all
          THEN /\ query_cache' = IF "query_cache" \in disk.files THEN disk.query_cache
                                 ELSE EmptyDict
               /\ cacheMeta' = IF "query_cache" \in disk.files THEN disk.cacheMeta
                               ELSE EmptyDict
               /\ pending' = {}
               /\ ProbesReset
          ELSE UNCHANGED <<query_cache, cacheMeta, pending, scorerCalls, first>>
       /\ ret' = CellRet("load", IF all THEN "ok" ELSE "FileNotFoundError", 0)
       /\ UNCHANGED <<disk, indexFiles, index, builds, calls>>
       /\ ConcUnchanged

\* a kernel restart empties the namespace; the files stay
RestartKernel ==
    /\ names # {}
    /\ names' = {}
    /\ docs' = <<>>
    /\ doc_ids' = <<>>
    /\ tfidf_vectorizer' = Unfitted
    /\ tfidf_matrix' = <<>>
    /\ query_cache' = EmptyDict
    /\ index' = {}
    /\ snap' = 0
    /\ cacheMeta' = EmptyDict
    /\ pending' = {}
    /\ ProbesReset
    /\ ret' = NoRet
    /\ UNCHANGED <<disk, indexFiles, builds, calls>>
    /\ ConcUnchanged

----------------------------------------------------------------------------
(* The notebook: a fresh kernel, no files.                                 *)

ConcIdle ==
    /\ pc = [c \in 1..NCallers |-> "idle"]
    /\ req = [c \in 1..NCallers |-> [q |-> <<>>, k |-> 0]]
    /\ local = [c \in 1..NCallers |-> <<>>]
    /\ got = [c \in 1..NCallers |-> <<>>]
    /\ started = EmptyDict

Init ==
    /\ names = {}
    /\ docs = <<>>
    /\ doc_ids = <<>>
    /\ tfidf_vectorizer = Unfitted
    /\ tfidf_matrix = <<>>
    /\ query_cache = EmptyDict
    /\ disk = NoDisk
    /\ indexFiles = NoIndexFiles
    /\ index = {}
    /\ ret = NoRet
    /\ snap = 0
    /\ builds = 0
    /\ cacheMeta = EmptyDict
    /\ pending = {}
    /\ scorerCalls = EmptyDict
    /\ first = EmptyDict
    /\ calls = 0
    /\ ConcIdle

\* one kernel session: the cells and the calls, in any order
Next ==
    \/ \E c \in SessionCorpora : TfidfCell(c)
    \/ CacheCell
    \/ \E q \in Queries, k \in TopKs : RetrieveWithCache(q, k)

Spec == Init /\ [][Next]_vars

\* sessions that save to cache/, restart the kernel and load again
NextPersist ==
    \/ Next
    \/ SaveCell
    \/ LoadCell
    \/ RestartKernel

SpecPersist == Init /\ [][NextPersist]_vars

\* the persisted snapshots across kernel sessions: the Terrier directory and
\* the joblib files, built, saved, opened and loaded
NextIndex ==
    \/ \E c \in SessionCorpora : IndexCell(c)
    \/ \E c \in SessionCorpora : TfidfCell(c)
    \/ SaveCell
    \/ LoadCell
    \/ RestartKernel

\* one kernel session over the two orders of the same documents
NextOrder ==
    \/ \E c \in Orderings : TfidfCell(c)
    \/ CacheCell
    \/ \E q \in Queries, k \in TopKs : RetrieveWithCache(q, k)

SpecOrder == Init /\ [][NextOrder]_vars

\* one kernel session in which docs_iter() may yield a document without text
NextMalformed ==
    \/ \E c \in WithMalformed : TfidfCell(c)
    \/ CacheCell
    \/ \E q \in Queries, k \in TopKs : RetrieveWithCache(q, k)

SpecMalformed == Init /\ [][NextMalformed]_vars

SpecIndex == Init /\ [][NextIndex]_vars

----------------------------------------------------------------------------
(* Concurrent callers of retrieve_with_cache.  The function takes no lock, *)
(* so a caller can be overtaken between the membership test, the scoring   *)
(* and the store.                                                          *)

SeqUnchanged ==
    UNCHANGED <<names, docs, doc_ids, tfidf_vectorizer, tfidf_matrix, disk, indexFiles,
                index, ret, snap, builds, pending, scorerCalls, first, calls>>

\* the call and its membership test: a hit returns the entry at once
Lookup(c, query_text, top_k) ==
    /\ pc[c] = "idle"
    /\ req' = [req EXCEPT ![c] = [q |-> query_text, k |-> top_k]]
    /\ IF CacheLookup(query_cache, query_text)
       THEN /\ got' = [got EXCEPT ![c] = query_cache[query_text]]
            /\ pc' = [pc EXCEPT ![c] = "done"]
       ELSE /\ pc' = [pc EXCEPT ![c] = "score"]
            /\ UNCHANGED got
    /\ UNCHANGED <<query_cache, cacheMeta, local, started>>
    /\ SeqUnchanged

\* transform, cosine_similarity, argsort and the result list
Score(c) ==
    /\ pc[c] = "score"
    /\ LET query_vec == Transform(tfidf_vectorizer, req[c].q)
           cos_sim == CosineSimilarity(query_vec, tfidf_matrix)
           key == <<req[c].q, req[c].k>>
           n == IF key \in DOMAIN started THEN started[key] ELSE 0
       IN /\ \E order \in ArgSorts(cos_sim) :
                local' = [local EXCEPT ![c] = Results(order, cos_sim, doc_ids, req[c].k)]
          /\ started' = DictPut(started, key, n + 1)
    /\ pc' = [pc EXCEPT ![c] = "store"]
    /\ UNCHANGED <<query_cache, cacheMeta, req, got>>
    /\ SeqUnchanged

\* query_cache[query_text] = results; return results
Store(c) ==
    /\ pc[c] = "store"
    /\ query_cache' = CacheStore(query_cache, req[c].q, local[c])
    /\ cacheMeta' = DictPut(cacheMeta, req[c].q, [k |-> req[c].k, snap |-> snap])
    /\ got' = [got EXCEPT ![c] = local[c]]
    /\ pc' = [pc EXCEPT ![c] = "done"]
    /\ UNCHANGED <<req, local, started>>
    /\ SeqUnchanged

\* the kernel after the TF-IDF cell and the cache cell have run on a corpus
InitConc ==
    /\ \E c \in SessionCorpora :
         /\ docs = Texts(c)
         /\ doc_ids = Ids(c)
         /\ tfidf_vectorizer = Fit(Texts(c))
         /\ tfidf_matrix = FitTransform(Texts(c))
    /\ names = {"docs", "doc_ids", "tfidf_vectorizer", "tfidf_matrix", "query_cache",
                "retrieve_with_cache"}
    /\ query_cache = EmptyDict
    /\ disk = NoDisk
    /\ indexFiles = NoIndexFiles
    /\ index = {}
    /\ ret = NoRet
    /\ snap = 1
    /\ builds = 1
    /\ cacheMeta = EmptyDict
    /\ pending = {}
    /\ scorerCalls = EmptyDict
    /\ first = EmptyDict
    /\ calls = 0
    /\ ConcIdle

NextConc ==
    \/ \E c \in 1..NCallers, q \in Queries, k \in PositiveKs : Lookup(c, q, k)
    \/ \E c \in 1..NCallers : Score(c)
    \/ \E c \in 1..NCallers : Store(c)

SpecConc == InitConc /\ [][NextConc]_vars

----------------------------------------------------------------------------
(* Properties.                                                             *)

Answered == ret.op = "retrieve"

Served == Answered /\ ret.outcome = "ok"

RetKey == <<ret.q, ret.k>>

\* C1: a request for a (query_text, k) that was already answered since the last
\* rebuild is a cache hit, returns the value the first answer returned, and the
\* scorer has run at most once for it.
C1_RepeatIsServedFromCache ==
    (Answered /\ ret.repeat) =>
        /\ ret.outcome = "ok"
        /\ ret.hit
        /\ ret.results = first[RetKey]
        /\ (RetKey \in DOMAIN scorerCalls => scorerCalls[RetKey] <= 1)

C1_Witness ==
    /\ Answered
    /\ ret.repeat
    /\ ret.hit
    /\ RetKey \in DOMAIN scorerCalls
    /\ scorerCalls[RetKey] = 1
    /\ ret.k > 0
    /\ Len(ret.results) > 0

\* C2: a request for (query_text, k) is never answered from an entry that was
\* computed for another k.
C2_KeyIncludesK == (Served /\ ret.hit) => ret.entryK = ret.k

\* C3: for every key, the concurrent callers start at most one scorer computation.
C3_SingleFlight == \A key \in DOMAIN started : started[key] <= 1

\* C4: the first request for a key that was cached when the index was rebuilt is
\* recomputed, not served from the old entry.
C4_RebuildInvalidates == (Answered /\ ret.wasPending) => (ret.outcome = "ok" /\ ~ret.hit)

\* C5: a result served from the cache was computed against the snapshot that is
\* live when it is served.
C5_ServedFromLiveSnapshot == (Served /\ ret.hit) => ret.entrySnap = ret.liveSnap

\* the namespace holds one complete snapshot: ids, vectorizer and matrix of one corpus
IndexComplete ==
    \E c \in DOMAIN Corpora :
        /\ doc_ids = Ids(c)
        /\ tfidf_vectorizer = Fit(Texts(c))
        /\ tfidf_matrix = FitTransform(Texts(c))

\* C6: once a build has completed, what readers see is always one complete
\* snapshot, also after a later build has failed.
C6_LiveIndexIsComplete == Bound("tfidf_matrix") => IndexComplete

\* C7: a request with k <= 0 ends in an error: it returns no result, not even an
\* empty one, and no cache entry is ever created by such a request.
C7_NonPositiveKRejected ==
    /\ (Answered /\ ret.k <= 0) => ret.outcome # "ok"
    /\ \A q \in DOMAIN cacheMeta : cacheMeta[q].k > 0

OutOfVocabulary(query_text) ==
    /\ tfidf_vectorizer.fitted
    /\ Range(Analyze(query_text)) \cap tfidf_vectorizer.vocabulary = {}

\* C8: a served request with k > 0 whose terms are all outside the vocabulary
\* has an empty result.
C8_OutOfVocabularyIsEmpty ==
    (Served /\ ret.k > 0 /\ OutOfVocabulary(ret.q)) => Len(ret.results) = 0

\* C9: a served request with k > 0 has at most k entries.
C9_AtMostK == (Served /\ ret.k > 0) => Len(ret.results) <= ret.k

\* C10: a served result is in descending score order, equal scores in ascending
\* doc_id order.
C10_Ranked ==
    Served =>
        \A i \in 1..(Len(ret.results) - 1) :
            LET a == ret.results[i]
                b == ret.results[i + 1]
            IN \/ a.score > b.score
               \/ (a.score = b.score /\ a.doc_id < b.doc_id)

\* a ceiling a configuration could set: one entry fewer than there are queries
CacheCeiling == Cardinality(Queries) - 1

\* C11: the number of cache entries never exceeds the configured ceiling.
C11_CacheWithinCeiling == Cardinality(DOMAIN query_cache) <= CacheCeiling

\* C12: when the index cell ends without an error, the index it hands to the
\* retrievers is the index of the corpus the cell was run on: a directory
\* written from another corpus is rebuilt, not opened.
C12_MismatchedSnapshotRebuilt ==
    (ret.op = "index" /\ ret.outcome # "error") =>
        index = Written(ret.dataset, Len(Corpora[ret.dataset]))

\* C13: a completed load leaves query_cache bound; it is empty when the cache
\* file is missing, and it holds no entry computed against another snapshot
\* than the one loaded with it.
C13_LoadFallsBackToEmpty ==
    (ret.op = "load" /\ ret.outcome = "ok") =>
        /\ Bound("query_cache")
        /\ ("query_cache" \notin disk.files => query_cache = EmptyDict)
        /\ \A q \in DOMAIN query_cache : cacheMeta[q].snap = snap

\* C14 as stated: a request made before any build has completed ends in
\* IndexNotReadyError, returns no result and stores no entry.
C14_IndexNotReadyError ==
    (Answered /\ builds = 0) =>
        /\ ret.outcome = "IndexNotReadyError"
        /\ ret.results = <<>>
        /\ DOMAIN query_cache = {}

NotReadyErrors == {"NameError", "NotFittedError"}

\* C14 as amended: a request made before any build has completed ends in the
\* NameError or NotFittedError of the unbound or unfitted vectorizer; it returns
\* no result, and as long as no build has completed the cache holds no entry and
\* the scorer has not run.
C14_NotReadyIsSurfaced ==
    /\ (Answered /\ builds = 0) =>
          /\ ret.outcome \in NotReadyErrors
          /\ ret.results = <<>>
          /\ ~ret.hit
    /\ builds = 0 => (DOMAIN query_cache = {} /\ DOMAIN scorerCalls = {})

C14_Witness ==
    /\ Answered
    /\ builds = 0
    /\ ret.outcome = "NotFittedError"
    /\ Bound("query_cache")
    /\ calls = 2

\* the results retrieve_with_cache can compute for (query_text, top_k) on the
\* snapshot the TF-IDF cell builds from corpus c
Computable(c, query_text, top_k) ==
    LET vec == Fit(Texts(c))
        cos_sim == CosineSimilarity(Transform(vec, query_text), FitTransform(Texts(c)))
    IN {Results(order, cos_sim, Ids(c), top_k) : order \in ArgSorts(cos_sim)}

\* C15: a result computed on the snapshot of one order of the documents is the
\* result the snapshot of every order gives for the same query and k.
C15_OrderIndependent ==
    (Served /\ ~ret.hit /\ ret.k > 0) =>
        \A c \in Orderings : Computable(c, ret.q, ret.k) = {ret.results}

\* the caller has run the scorer and has not stored its results yet
Computed(c) == pc[c] = "store"

\* C16: no two callers have each computed the results of the same key: the one
\* that asked while the key was in flight waited for the other's result.
C16_WaitersDoNotCompute ==
    \A c, d \in 1..NCallers :
        (c # d /\ Computed(c) /\ Computed(d)) => req[c] # req[d]

\* the live document with this id holds a term of the query
ContainsQueryTerm(doc_id, query_text) ==
    \E i \in DOMAIN doc_ids :
        /\ doc_ids[i] = doc_id
        /\ Range(Analyze(docs[i])) \cap Range(Analyze(query_text)) # {}

\* C19: every document of a served result contains at least one term of the query.
C19_OnlyCandidatesReturned ==
    Served =>
        \A i \in DOMAIN ret.results : ContainsQueryTerm(ret.results[i].doc_id, ret.q)

Failed(r) == r.op = "retrieve" /\ r.outcome # "ok"

\* C20: a request that ends in an error returns nothing and leaves no entry for
\* its key; the failing call changes no entry of query_cache; and the next
\* request for the same key is not a hit.
C20_ErrorFailsOnlyThatRequest ==
    /\ [](Failed(ret) => (ret.results = <<>> /\ ret.q \notin DOMAIN query_cache))
    /\ [][(calls' = calls + 1 /\ Failed(ret')) => query_cache' = query_cache]_vars
    /\ [][(Failed(ret) /\ calls' = calls + 1 /\ ret'.q = ret.q) => ~ret'.hit]_vars

C20_Witness ==
    /\ Failed(ret)
    /\ calls = 2
    /\ DOMAIN query_cache # {}
    /\ ret.q \notin DOMAIN query_cache

\* the well-formed documents of corpus c, in the order they are yielded
WellFormedDocs(c) == SelectSeq(Corpora[c], LAMBDA d : d.text # NonText)

\* C21: once the build has read a corpus that holds a malformed document, it
\* completes, and the live index holds exactly the well-formed documents.
C21_MalformedSkipped ==
    \A c \in WithMalformed :
        (~WellFormed(c) /\ Bound("docs") /\ docs = Texts(c)) =>
            /\ Bound("tfidf_matrix")
            /\ tfidf_vectorizer.fitted
            /\ doc_ids = [i \in DOMAIN WellFormedDocs(c) |-> WellFormedDocs(c)[i].doc_id]
            /\ Len(tfidf_matrix) = Len(WellFormedDocs(c))

\* what the readers hold: the ids, the vectorizer and the matrix
Snapshot == <<doc_ids, tfidf_vectorizer, tfidf_matrix>>

\* C23: while a snapshot is live, a call of retrieve_with_cache changes none of
\* its parts, and any step that changes it replaces it by one complete snapshot.
C23_SnapshotReplacedAsAWhole ==
    [][(Bound("tfidf_matrix") /\ Snapshot' # Snapshot) =>
          (calls' = calls /\ IndexComplete')]_vars

\* C24: a hit leaves query_cache as it was; a served miss adds the entry of the
\* requested key, which was absent; no call removes a key or changes the value
\* stored under a key.
C24_CacheOnlyGrows ==
    [][calls' = calls + 1 =>
          /\ ret'.hit => query_cache' = query_cache
          /\ (ret'.outcome = "ok" /\ ~ret'.hit) =>
                /\ ret'.q \notin DOMAIN query_cache
                /\ DOMAIN query_cache' = DOMAIN query_cache \cup {ret'.q}
                /\ query_cache'[ret'.q] = ret'.results
          /\ \A q \in DOMAIN query_cache :
                q \in DOMAIN query_cache' /\ query_cache'[q] = query_cache[q]]_vars

C24_Witness ==
    /\ Served
    /\ ~ret.hit
    /\ calls = 2
    /\ Cardinality(DOMAIN query_cache) = 2

====
